---- MODULE Spec2Model ----
(***************************************************************************)
(* dynastore: a gorilla sessions.Store backed by a DynamoDB table.          *)
(*                                                                         *)
(* The model follows the TTL-aware store of src/options.go (New, Save,     *)
(* save, delete, load), its two serializers of src/serializers.go, the     *)
(* earlier error-propagating store of src/unnamed/part_000 and the SDK-v2  *)
(* store of src/store.go (New, Save, Persist, Delete, Load).  The table is *)
(* a map from session id to item; every table call (GetItem, PutItem,      *)
(* DeleteItem) is one atomic step that may fail, and requests interleave   *)
(* between table calls.                                                    *)
(***************************************************************************)
EXTENDS Integers, Sequences, FiniteSets, TLC

\* ------------------------------------------------------------- bounds
\* The clock runs from 1 to MaxTime (Unix seconds, scaled down).
MaxTime == 3
\* Session ids are 1..MaxId.
MaxId == 2
\* Max-age values a handler can set are -1..MaxMaxAge.
MaxMaxAge == 1
\* Save calls a request makes.
MaxSaves == 1

Requests == {"r1", "r2"}
SessionName == "blah"
\* Session ids.  The store generates them in order (32 random bytes each:
\* never an id seen before).
Ids == 1..MaxId
\* The id under which the table may hold a record before the first request.
SeedId == CHOOSE i \in Ids : \A j \in Ids : i <= j
\* The empty string, as a cookie value or a session id.
EmptyString == 0
\* A request that carries no cookie of the session's name.
NoCookie == -1
MaxAges == (-1)..MaxMaxAge

\* A values map: the empty map of NewSession, a map a handler filled, and a
\* map holding a value gob cannot encode (a channel, an unregistered type).
ValueMaps == {"empty", "hello", "chan"}

\* ------------------------------------------------------------- strings
Digits == <<"0", "1", "2", "3", "4", "5", "6", "7", "8", "9">>

RECURSIVE FormatNat(_)
FormatNat(n) ==
    IF n < 10 THEN <<Digits[n + 1]>>
    ELSE Append(FormatNat(n \div 10), Digits[(n % 10) + 1])

\* strconv.FormatInt(v, 10)
FormatInt(v) == IF v < 0 THEN <<"-">> \o FormatNat(-v) ELSE FormatNat(v)

DigitValue(c) == CHOOSE d \in 0..9 : Digits[d + 1] = c
IsDigit(c) == \E d \in 0..9 : Digits[d + 1] = c

RECURSIVE ParseNat(_, _)
ParseNat(s, acc) ==
    IF s = << >> THEN acc
    ELSE ParseNat(Tail(s), (acc * 10) + DigitValue(Head(s)))

\* strconv.ParseInt(s, 10, 64): an optional sign, then one or more digits.
ParseInt(s) ==
    LET signed == s # << >> /\ Head(s) \in {"-", "+"}
        body == IF signed THEN Tail(s) ELSE s
    IN  IF body = << >> \/ \E i \in 1..Len(body) : ~IsDigit(body[i])
        THEN [ok |-> FALSE, v |-> 0]
        ELSE [ok |-> TRUE,
              v |-> IF signed /\ Head(s) = "-" THEN -ParseNat(body, 0)
                    ELSE ParseNat(body, 0)]

\* ------------------------------------------------------------- options
\* sessions.Options, the five fields the store copies.
ZeroOptions ==
    [Path |-> "", Domain |-> "", MaxAge |-> 0, Secure |-> FALSE, HttpOnly |-> FALSE]

\* A *sessions.Options: nil, a struct of the session's own, or the address of
\* the store's options field.
NilOptions == [at |-> "nil"]
OwnOptions(o) == [at |-> "heap", val |-> o]
StoreOptionsRef == [at |-> "store"]

\* ------------------------------------------------------------- items
\* An item is a function from attribute names to attribute values; an
\* attribute value is a record with the one field of its DynamoDB type.
NoItem == << >>
idField == "id"
valuesField == "values"
optionsField == "options"
DefaultTTLField == "ttl"

AttrS(x) == [S |-> x]
AttrN(x) == [N |-> x]
IsS(av) == "S" \in DOMAIN av
IsN(av) == "N" \in DOMAIN av

\* dynamodbattribute.Marshal of one field: an empty string is written as NULL.
MarshalString(x) == IF x = "" THEN [NULL |-> TRUE] ELSE [S |-> x]
MarshalOptions(o) ==
    [M |-> [Path |-> MarshalString(o.Path),
            Domain |-> MarshalString(o.Domain),
            MaxAge |-> AttrN(FormatInt(o.MaxAge)),
            Secure |-> [BOOL |-> o.Secure],
            HttpOnly |-> [BOOL |-> o.HttpOnly]]]

\* An unmarshal of strings that rejects NULL.
UnmarshalStringOk_NoNull(av) == IsS(av)
UnmarshalStringOk(av) == IsS(av) \/ "NULL" \in DOMAIN av
UnmarshalString(av) == IF IsS(av) THEN av.S ELSE ""
UnmarshalIntOk(av) == IsN(av) /\ ParseInt(av.N).ok
UnmarshalBoolOk(av) == "BOOL" \in DOMAIN av

\* dynamodbattribute.Unmarshal(av, &sessions.Options{}): [ok, val].
UnmarshalOptions(av) ==
    IF "M" \notin DOMAIN av THEN [ok |-> FALSE, val |-> ZeroOptions]
    ELSE LET m == av.M
         IN  IF /\ UnmarshalStringOk(m.Path)
                /\ UnmarshalStringOk(m.Domain)
                /\ UnmarshalIntOk(m.MaxAge)
                /\ UnmarshalBoolOk(m.Secure)
                /\ UnmarshalBoolOk(m.HttpOnly)
             THEN [ok |-> TRUE,
                   val |-> [Path |-> UnmarshalString(m.Path),
                            Domain |-> UnmarshalString(m.Domain),
                            MaxAge |-> ParseInt(m.MaxAge.N).v,
                            Secure |-> m.Secure.BOOL,
                            HttpOnly |-> m.HttpOnly.BOOL]]
             ELSE [ok |-> FALSE, val |-> ZeroOptions]

\* ------------------------------------------------------------- payload
\* The values string of a record: what encoded it, under which name, and the
\* map it carries; "junk" is a string no decoder accepts.
Payload(enc, name, v) == [enc |-> enc, name |-> name, v |-> v]
JunkPayload == Payload("junk", "", "empty")

Encodable(v) == v # "chan"

\* gob.NewEncoder(buf).Encode(values), then base64.
GobEncode(v) == Payload("gob", "", v)
\* base64 decode, then gob decode.
GobDecode(p) == [ok |-> p.enc = "gob", v |-> p.v]
\* securecookie.EncodeMulti(name, values, codecs...)
CodecEncode(name, v) == Payload("codec", name, v)
\* securecookie.DecodeMulti(name, value, &values, codecs...)
CodecDecode(name, p) == [ok |-> p.enc = "codec" /\ p.name = name, v |-> p.v]

\* ------------------------------------------------------------- state
VARIABLES
    store,      \* the Store: tableName, ttlField, serializer, options
    now,        \* time.Now().Unix()
    table,      \* the DynamoDB table: id -> item (NoItem when absent)
    nextId,     \* the next id securecookie.GenerateRandomKey yields
    pc,         \* where each request is: idle, handler, deleting, panicked, failed
    cookie,     \* the cookie value each request carries (NoCookie: none)
    sess,       \* the *sessions.Session each request holds
    saves,      \* Save calls the request has made
    emitted,    \* cookies the request's latest Save call set on the response
    loaded,     \* what load did inside the request's New (until its Save)
    ret,        \* what the request's latest call (New or Save) returned
    lastWrite,  \* per id, the item of the latest PutItem or DeleteItem, its request,
                \* and whether the Save that made the call has returned without error
    replaced,   \* the item the request's put replaced, while its Save awaits the delete
    calls       \* the PutItem and DeleteItem calls the request's latest Save made

vars == <<store, now, table, nextId, pc, cookie, sess, saves, emitted, loaded, ret,
          lastWrite, replaced, calls>>

\* sessions.NewSession(store, name): empty values, new(Options), not new, no id.
NewSession ==
    [ID |-> EmptyString, IsNew |-> FALSE, Values |-> "empty",
     Options |-> OwnOptions(ZeroOptions)]
NilSession == [nil |-> TRUE]

\* The options a session pointer leads to.
Deref(p) == IF p.at = "store" THEN store.options ELSE p.val

\* ------------------------------------------------------------- serializers
OptionsAttr(s) ==
    IF s.Options.at = "nil" THEN NoItem
    ELSE (optionsField :> MarshalOptions(Deref(s.Options)))

\* codecSerializer.marshal and gobSerializer.marshal: [err, av].
marshal(ser, name, s) ==
    IF ~Encodable(s.Values) THEN [err |-> "EncodeFailed", av |-> NoItem]
    ELSE [err |-> "nil",
          av |-> (idField :> AttrS(s.ID))
                 @@ (valuesField :>
                       AttrS(IF ser = "codec" THEN CodecEncode(name, s.Values)
                             ELSE GobEncode(s.Values)))
                 @@ OptionsAttr(s)]

\* An unmarshal that clears the session's options when the record has none.
unmarshalTail_NilWhenAbsent(in, s, id, values) ==
    LET hydrated == [s EXCEPT !.IsNew = FALSE, !.ID = id, !.Values = values]
    IN  IF optionsField \in DOMAIN in
        THEN LET o == UnmarshalOptions(in[optionsField])
             IN  IF o.ok
                 THEN [err |-> "nil",
                       s |-> [hydrated EXCEPT !.Options = OwnOptions(o.val)]]
                 ELSE [err |-> "UnmarshalTypeError", s |-> hydrated]
        ELSE [err |-> "nil", s |-> [hydrated EXCEPT !.Options = NilOptions]]

\* The tail both unmarshal methods share: the session is assigned its id and
\* values, then the options field, if there is one, is decoded.
unmarshalTail(in, s, id, values) ==
    LET hydrated == [s EXCEPT !.IsNew = FALSE, !.ID = id, !.Values = values]
    IN  IF optionsField \in DOMAIN in
        THEN LET o == UnmarshalOptions(in[optionsField])
             IN  IF o.ok
                 THEN [err |-> "nil",
                       s |-> [hydrated EXCEPT !.Options = OwnOptions(o.val)]]
                 ELSE [err |-> "UnmarshalTypeError", s |-> hydrated]
        ELSE [err |-> "nil", s |-> hydrated]

\* codecSerializer.unmarshal: [err, s].
codecUnmarshal(name, in, s) ==
    IF in = NoItem THEN [err |-> "NotFound", s |-> s]
    ELSE IF idField \notin DOMAIN in \/ ~IsS(in[idField])
    THEN [err |-> "MalformedSession", s |-> s]
    ELSE IF valuesField \notin DOMAIN in \/ ~IsS(in[valuesField])
    THEN [err |-> "MalformedSession", s |-> s]
    ELSE LET d == CodecDecode(name, in[valuesField].S)
         IN  IF ~d.ok THEN [err |-> "DecodeFailed", s |-> s]
             ELSE unmarshalTail(in, s, in[idField].S, d.v)

\* An unmarshal that does not look for the empty record first.
gobUnmarshal_NoEmptyCheck(name, in, s) ==
    IF idField \notin DOMAIN in \/ ~IsS(in[idField])
    THEN [err |-> "MalformedSession", s |-> s]
    ELSE IF valuesField \notin DOMAIN in \/ ~IsS(in[valuesField])
    THEN [err |-> "panic", s |-> s]
    ELSE LET d == GobDecode(in[valuesField].S)
         IN  IF ~d.ok THEN [err |-> "DecodeFailed", s |-> s]
             ELSE unmarshalTail(in, s, in[idField].S, d.v)

\* gobSerializer.unmarshal: [err, s].  The guard of the values field is
\* "!ok && av.S != nil": with the field missing av is nil and av.S panics;
\* with the field present and not a string *av.S panics.
gobUnmarshal(name, in, s) ==
    IF in = NoItem THEN [err |-> "NotFound", s |-> s]
    ELSE IF idField \notin DOMAIN in \/ ~IsS(in[idField])
    THEN [err |-> "MalformedSession", s |-> s]
    ELSE IF valuesField \notin DOMAIN in \/ ~IsS(in[valuesField])
    THEN [err |-> "panic", s |-> s]
    ELSE LET d == GobDecode(in[valuesField].S)
         IN  IF ~d.ok THEN [err |-> "DecodeFailed", s |-> s]
             ELSE unmarshalTail(in, s, in[idField].S, d.v)

unmarshal(ser, name, in, s) ==
    IF ser = "codec" THEN codecUnmarshal(name, in, s) ELSE gobUnmarshal(name, in, s)

\* ------------------------------------------------------------- table calls
\* A read that has yet to see what was put under the key.
GetItem_Stale(tbl, id) == NoItem
\* GetItem with ConsistentRead: the item under the key, empty when there is none.
GetItem(tbl, id) == tbl[id]
\* A put that keeps the attributes of the old item the new one does not name.
PutItem_Merge(tbl, av) == [tbl EXCEPT ![av[idField].S] = av @@ @]
\* PutItem replaces the whole item under the key of av.
PutItem(tbl, av) == [tbl EXCEPT ![av[idField].S] = av]
\* A DeleteItem whose key names no item: the table keeps the record.
DeleteItem_WrongKey(tbl, id) == tbl
DeleteItem(tbl, id) == [tbl EXCEPT ![id] = NoItem]

\* ------------------------------------------------------------- load
\* The expiry test with its comparison turned round.
Expired_Reversed(ttl, t) == ttl > 0 /\ ttl > t

\* load's expiry test, on the ttl it parsed (0 when the item has none).
Expired(ttl, t) == ttl > 0 /\ ttl < t

\* A load that takes a ttl it cannot read for no ttl.
load_TTLUnchecked(name, item, readOk, s) ==
    IF ~readOk THEN [err |-> "GetItemError", s |-> s]
    ELSE IF item = NoItem THEN [err |-> "NotFound", s |-> s]
    ELSE LET hasTTL == store.ttlField \in DOMAIN item
             av == item[store.ttlField]
             ttl == IF hasTTL /\ IsN(av) /\ ParseInt(av.N).ok THEN ParseInt(av.N).v ELSE 0
         IN  IF Expired(ttl, now) THEN [err |-> "NotFound", s |-> s]
             ELSE unmarshal(store.serializer, name, item, s)

\* A load that decodes the record before it looks at the ttl.
load_DecodeFirst(name, item, readOk, s) ==
    IF ~readOk THEN [err |-> "GetItemError", s |-> s]
    ELSE IF item = NoItem THEN [err |-> "NotFound", s |-> s]
    ELSE LET hasTTL == store.ttlField \in DOMAIN item
             av == item[store.ttlField]
             u == unmarshal(store.serializer, name, item, s)
         IN  IF u.err # "nil" THEN u
             ELSE IF hasTTL /\ ~IsN(av) THEN [err |-> "MalformedSession", s |-> s]
             ELSE IF hasTTL /\ ~ParseInt(av.N).ok
             THEN [err |-> "MalformedSession", s |-> s]
             ELSE LET ttl == IF hasTTL THEN ParseInt(av.N).v ELSE 0
                  IN  IF Expired(ttl, now) THEN [err |-> "NotFound", s |-> s]
                      ELSE u

\* Store.load, given GetItem's outcome: [err, s].
load(name, item, readOk, s) ==
    IF ~readOk THEN [err |-> "GetItemError", s |-> s]
    ELSE IF item = NoItem THEN [err |-> "NotFound", s |-> s]
    ELSE LET hasTTL == store.ttlField \in DOMAIN item
             av == item[store.ttlField]
         IN  IF hasTTL /\ ~IsN(av) THEN [err |-> "MalformedSession", s |-> s]
             ELSE IF hasTTL /\ ~ParseInt(av.N).ok
             THEN [err |-> "MalformedSession", s |-> s]
             ELSE LET ttl == IF hasTTL THEN ParseInt(av.N).v ELSE 0
                  IN  IF Expired(ttl, now) THEN [err |-> "NotFound", s |-> s]
                      ELSE unmarshal(store.serializer, name, item, s)

\* ------------------------------------------------------------- New
\* Store.New after load failed with err: whether err is returned to the caller.
\* The store of options.go returns the loaded session when err is nil and falls
\* through to a fresh session for every other err.
newReturnsError(err) == FALSE

\* A fresh session left with the options of NewSession, as the earlier store
\* leaves it.
freshOptions_Zero == OwnOptions(ZeroOptions)

\* The store's own options struct handed out, not a copy of it.
freshOptions_Shared == StoreOptionsRef

\* The options New gives a fresh session: a new struct, the five fields copied.
freshOptions ==
    OwnOptions([Path |-> store.options.Path,
                Domain |-> store.options.Domain,
                MaxAge |-> store.options.MaxAge,
                Secure |-> store.options.Secure,
                HttpOnly |-> store.options.HttpOnly])

freshSession(id) ==
    [NewSession EXCEPT !.ID = id, !.IsNew = TRUE, !.Options = freshOptions]

\* A load that deletes the record it finds expired or cannot use.
tableAfterLoad_Purged(tbl, id, err) ==
    IF err \in {"nil", "GetItemError"} THEN tbl ELSE DeleteItem(tbl, id)

\* The table after load read the record under id and returned err: load makes
\* the one GetItem call, no put and no delete.
tableAfterLoad(tbl, id, err) == tbl

\* A fresh session that takes the id the request sent, when it sent one.
generatedId_FromCookie(c, n) == IF c # NoCookie THEN c ELSE n

\* The id New gives a fresh session: 32 random bytes, base32 (the n-th id the
\* store generates); the cookie of the request has no part in it.
generatedId(c, n) == n

\* What load did: its error ("none": New did not call it), the item GetItem
\* gave it, and the time of the call.
NoLoad == [err |-> "none", item |-> NoItem, at |-> 0]
\* What a call returned: the call and its error.
NoRet == [op |-> "none", err |-> "nil"]
Returned(op, err) == [op |-> op, err |-> err]

\* The cookie a request carries: none, or an id some session has had (an id the
\* store has yet to generate is 32 random bytes no client can send).
CookieInput(c, readOk) ==
    IF c = NoCookie THEN readOk ELSE c < nextId

\* Store.New of options.go for a request carrying cookie c (NoCookie: none).
New(r, c, readOk) ==
    /\ pc[r] = "idle"
    /\ CookieInput(c, readOk)
    /\ LET l == IF c = NoCookie THEN [err |-> "none", s |-> NewSession]
                ELSE load(SessionName, GetItem(table, c), readOk, NewSession)
       IN  /\ loaded' = [loaded EXCEPT ![r] =
                  IF c = NoCookie THEN NoLoad
                  ELSE [err |-> l.err,
                        item |-> IF readOk THEN GetItem(table, c) ELSE NoItem,
                        at |-> now]]
           /\ cookie' = [cookie EXCEPT ![r] = c]
           /\ IF l.err = "nil"
              THEN /\ sess' = [sess EXCEPT ![r] = l.s]
                   /\ ret' = [ret EXCEPT ![r] = Returned("New", "nil")]
                   /\ pc' = [pc EXCEPT ![r] = "handler"]
                   /\ UNCHANGED nextId
              ELSE IF l.err = "panic"
              THEN /\ pc' = [pc EXCEPT ![r] = "panicked"]
                   /\ UNCHANGED <<sess, ret, nextId>>
              ELSE IF l.err # "none" /\ newReturnsError(l.err)
              THEN /\ sess' = [sess EXCEPT ![r] = NilSession]
                   /\ ret' = [ret EXCEPT ![r] = Returned("New", l.err)]
                   /\ pc' = [pc EXCEPT ![r] = "failed"]
                   /\ UNCHANGED nextId
              ELSE /\ nextId \in Ids
                   /\ sess' = [sess EXCEPT ![r] = freshSession(generatedId(c, nextId))]
                   /\ ret' = [ret EXCEPT ![r] = Returned("New", "nil")]
                   /\ nextId' = nextId + 1
                   /\ pc' = [pc EXCEPT ![r] = "handler"]
           /\ table' = IF c = NoCookie THEN table ELSE tableAfterLoad(table, c, l.err)
    /\ UNCHANGED <<store, now, saves, emitted, lastWrite, replaced, calls>>

\* ------------------------------------------------------------- handler
\* What a handler does to session.Options before it calls Save: nothing,
\* session.Options = nil, or session.Options.MaxAge = m.
OptionEdits ==
    {[kind |-> "keep"], [kind |-> "nil"]} \cup {[kind |-> "maxAge", m |-> m] : m \in MaxAges}

EditApplies(s, e) == e.kind = "maxAge" => s.Options.at # "nil"

\* The session after the handler assigned Values and edited Options.
editedSession(s, v, e) ==
    LET s1 == [s EXCEPT !.Values = v]
    IN  IF e.kind = "nil" THEN [s1 EXCEPT !.Options = NilOptions]
        ELSE IF e.kind = "maxAge" /\ s.Options.at = "heap"
        THEN [s1 EXCEPT !.Options.val.MaxAge = e.m]
        ELSE s1

\* The store after the same edit: an assignment through a pointer to the
\* store's own options field lands in the store.
editedStore(s, e) ==
    IF e.kind = "maxAge" /\ s.Options.at = "store"
    THEN [store EXCEPT !.options.MaxAge = e.m]
    ELSE store

\* ------------------------------------------------------------- Save
OptionsOf(p, st) == IF p.at = "store" THEN st.options ELSE p.val

\* newCookie with the store's default options in place of the session's.
newCookie_StoreDefaults(s, st, name, value) ==
    [Name |-> name, Value |-> value, Path |-> st.options.Path,
     Domain |-> st.options.Domain, MaxAge |-> st.options.MaxAge,
     HttpOnly |-> st.options.HttpOnly, Secure |-> st.options.Secure]

\* newCookie without the value: the cookie a Save would emit had it dropped it.
newCookie_NoValue(s, st, name, value) ==
    LET o == IF s.Options.at = "nil" THEN ZeroOptions ELSE OptionsOf(s.Options, st)
    IN  [Name |-> name, Value |-> EmptyString, Path |-> o.Path, Domain |-> o.Domain,
         MaxAge |-> o.MaxAge, HttpOnly |-> o.HttpOnly, Secure |-> o.Secure]

newCookie(s, st, name, value) ==
    LET o == IF s.Options.at = "nil" THEN ZeroOptions ELSE OptionsOf(s.Options, st)
    IN  [Name |-> name, Value |-> value, Path |-> o.Path, Domain |-> o.Domain,
         MaxAge |-> o.MaxAge, HttpOnly |-> o.HttpOnly, Secure |-> o.Secure]

\* An expiry that leaves the clock out: the max-age alone.
expiresAt_Relative(t, maxAge) == maxAge

\* save's expiry: time.Now().Add(MaxAge seconds).Unix()
expiresAt(t, maxAge) == t + maxAge

\* A ttl condition that takes a max-age of zero for an expiry.
savesTTL_NonNegative(s, st) ==
    /\ st.ttlField # ""
    /\ s.Options.at # "nil"
    /\ OptionsOf(s.Options, st).MaxAge >= 0

\* Whether save attaches the ttl attribute.
savesTTL(s, st) ==
    /\ st.ttlField # ""
    /\ s.Options.at # "nil"
    /\ OptionsOf(s.Options, st).MaxAge > 0

\* The item save puts: marshal's, with the ttl attribute when max-age is positive.
saveItem(av, s, st, t) ==
    IF savesTTL(s, st)
    THEN (st.ttlField :> AttrN(FormatInt(expiresAt(t, OptionsOf(s.Options, st).MaxAge))))
         @@ av
    ELSE av

\* The table calls of a Save that has made none.
NoCalls == [put |-> 0, delete |-> 0]

\* A save that calls PutItem a second time when the first call failed.
putCalls_Retry(err, putOk) == IF err # "nil" THEN 0 ELSE IF putOk THEN 1 ELSE 2

\* The PutItem calls of save: none when marshal failed, else one, whatever
\* the call returns.
putCalls(err, putOk) == IF err = "nil" THEN 1 ELSE 0

\* A delete condition that takes a max-age of zero for a deletion.
deletes_NonPositive(s, st) == s.Options.at # "nil" /\ OptionsOf(s.Options, st).MaxAge <= 0

\* Save's test for the deleting branch.
deletes(s, st) == s.Options.at # "nil" /\ OptionsOf(s.Options, st).MaxAge < 0

\* A Save that marks the session as no longer new.
sessionAfterSave_NotNew(s) == [s EXCEPT !.IsNew = FALSE]

\* Save reads the session; it assigns none of its fields.
sessionAfterSave(s) == s

\* The handler assigns the session's values and options and calls Store.Save,
\* which runs to its first return or to its DeleteItem call: save (marshal,
\* PutItem), then the cookie.
Save(r, v, e, putOk) ==
    /\ pc[r] = "handler"
    /\ saves[r] < MaxSaves
    /\ saves' = [saves EXCEPT ![r] = @ + 1]
    /\ EditApplies(sess[r], e)
    /\ LET s == editedSession(sess[r], v, e)
           st == editedStore(sess[r], e)
           m == marshal(st.serializer, SessionName, s)
           av == saveItem(m.av, s, st, now)
       IN  /\ store' = st
           /\ loaded' = [loaded EXCEPT ![r] = NoLoad]
           /\ calls' = [calls EXCEPT ![r] =
                  [put |-> putCalls(m.err, putOk), delete |-> 0]]
           /\ IF m.err # "nil"
              THEN /\ ret' = [ret EXCEPT ![r] = Returned("Save", m.err)]
                   /\ emitted' = [emitted EXCEPT ![r] = << >>]
                   /\ sess' = [sess EXCEPT ![r] = s]
                   /\ UNCHANGED <<table, lastWrite, pc, replaced>>
              ELSE IF ~putOk
              THEN /\ ret' = [ret EXCEPT ![r] = Returned("Save", "PutItemError")]
                   /\ emitted' = [emitted EXCEPT ![r] = << >>]
                   /\ sess' = [sess EXCEPT ![r] = s]
                   /\ UNCHANGED <<table, lastWrite, pc, replaced>>
              ELSE /\ table' = PutItem(table, av)
                   /\ lastWrite' = [lastWrite EXCEPT ![s.ID] = [item |-> av, by |-> r, done |-> ~deletes(s, st)]]
                   /\ IF deletes(s, st)
                      THEN /\ emitted' = [emitted EXCEPT ![r] =
                                  <<newCookie(s, st, SessionName, EmptyString)>>]
                           /\ pc' = [pc EXCEPT ![r] = "deleting"]
                           /\ replaced' = [replaced EXCEPT ![r] = table[s.ID]]
                           /\ sess' = [sess EXCEPT ![r] = s]
                           /\ ret' = [ret EXCEPT ![r] = Returned("Save", "pending")]
                      ELSE IF ~s.IsNew
                      THEN /\ emitted' = [emitted EXCEPT ![r] = << >>]
                           /\ sess' = [sess EXCEPT ![r] = sessionAfterSave(s)]
                           /\ ret' = [ret EXCEPT ![r] = Returned("Save", "nil")]
                           /\ UNCHANGED <<pc, replaced>>
                      ELSE /\ emitted' = [emitted EXCEPT ![r] =
                                  <<newCookie(s, st, SessionName, s.ID)>>]
                           /\ sess' = [sess EXCEPT ![r] = sessionAfterSave(s)]
                           /\ ret' = [ret EXCEPT ![r] = Returned("Save", "nil")]
                           /\ UNCHANGED <<pc, replaced>>
    /\ UNCHANGED <<now, nextId, cookie>>

\* The rest of a Save with a negative max-age: return store.delete(ctx, session.ID).
SaveDelete(r, deleteOk) ==
    /\ pc[r] = "deleting"
    /\ pc' = [pc EXCEPT ![r] = "handler"]
    /\ replaced' = [replaced EXCEPT ![r] = NoItem]
    /\ calls' = [calls EXCEPT ![r].delete = @ + 1]
    /\ LET s == sess[r]
       IN  IF deleteOk
           THEN /\ table' = DeleteItem(table, s.ID)
                /\ lastWrite' = [lastWrite EXCEPT ![s.ID] = [item |-> NoItem, by |-> r, done |-> TRUE]]
                /\ sess' = [sess EXCEPT ![r] = sessionAfterSave(s)]
                /\ ret' = [ret EXCEPT ![r] = Returned("Save", "nil")]
           ELSE /\ ret' = [ret EXCEPT ![r] = Returned("Save", "DeleteItemError")]
                /\ UNCHANGED <<table, lastWrite, sess>>
    /\ UNCHANGED <<store, now, nextId, cookie, saves, emitted, loaded>>

\* ------------------------------------------------------------- the earlier store
\* Store.unmarshal of the earlier store: the body of codecSerializer.unmarshal.
strictUnmarshal(name, in, s) == codecUnmarshal(name, in, s)

\* Store.load of the earlier store: GetItem, then unmarshal; no ttl.
strictLoad(name, item, readOk, s) ==
    IF ~readOk THEN [err |-> "GetItemError", s |-> s]
    ELSE strictUnmarshal(name, item, s)

\* The rule of the later store: no error of load is returned.
strictReturnsError_Never(err) == FALSE

\* Store.New of the earlier store after load failed with err: whether err is
\* returned to the caller, with a nil session.
strictReturnsError(err) == err # "NotFound"

\* Store.New of the earlier store: a fresh session gets an id and IsNew; its
\* options stay those of NewSession.
StrictNew(r, c, readOk) ==
    /\ pc[r] = "idle"
    /\ CookieInput(c, readOk)
    /\ LET l == IF c = NoCookie THEN [err |-> "none", s |-> NewSession]
                ELSE strictLoad(SessionName, GetItem(table, c), readOk, NewSession)
           fresh == [NewSession EXCEPT !.ID = nextId, !.IsNew = TRUE]
       IN  /\ loaded' = [loaded EXCEPT ![r] =
                  IF c = NoCookie THEN NoLoad
                  ELSE [err |-> l.err,
                        item |-> IF readOk THEN GetItem(table, c) ELSE NoItem,
                        at |-> now]]
           /\ cookie' = [cookie EXCEPT ![r] = c]
           /\ IF l.err = "nil"
              THEN /\ sess' = [sess EXCEPT ![r] = l.s]
                   /\ ret' = [ret EXCEPT ![r] = Returned("New", "nil")]
                   /\ pc' = [pc EXCEPT ![r] = "handler"]
                   /\ UNCHANGED nextId
              ELSE IF l.err # "none" /\ strictReturnsError(l.err)
              THEN /\ sess' = [sess EXCEPT ![r] = NilSession]
                   /\ ret' = [ret EXCEPT ![r] = Returned("New", l.err)]
                   /\ pc' = [pc EXCEPT ![r] = "failed"]
                   /\ UNCHANGED nextId
              ELSE /\ nextId \in Ids
                   /\ sess' = [sess EXCEPT ![r] = fresh]
                   /\ ret' = [ret EXCEPT ![r] = Returned("New", "nil")]
                   /\ nextId' = nextId + 1
                   /\ pc' = [pc EXCEPT ![r] = "handler"]
    /\ UNCHANGED <<store, now, table, saves, emitted, lastWrite, replaced, calls>>

\* Store.Save of the earlier store: save (marshal, PutItem), then the cookie,
\* always with the session id.
StrictSave(r, v, e, putOk) ==
    /\ pc[r] = "handler"
    /\ saves[r] < MaxSaves
    /\ saves' = [saves EXCEPT ![r] = @ + 1]
    /\ EditApplies(sess[r], e)
    /\ LET s == editedSession(sess[r], v, e)
           m == marshal("codec", SessionName, s)
       IN  /\ sess' = [sess EXCEPT ![r] = s]
           /\ loaded' = [loaded EXCEPT ![r] = NoLoad]
           /\ calls' = [calls EXCEPT ![r] =
                  [put |-> putCalls(m.err, putOk), delete |-> 0]]
           /\ IF m.err # "nil"
              THEN /\ ret' = [ret EXCEPT ![r] = Returned("Save", m.err)]
                   /\ emitted' = [emitted EXCEPT ![r] = << >>]
                   /\ UNCHANGED <<table, lastWrite>>
              ELSE IF ~putOk
              THEN /\ ret' = [ret EXCEPT ![r] = Returned("Save", "PutItemError")]
                   /\ emitted' = [emitted EXCEPT ![r] = << >>]
                   /\ UNCHANGED <<table, lastWrite>>
              ELSE /\ table' = PutItem(table, m.av)
                   /\ lastWrite' = [lastWrite EXCEPT ![s.ID] = [item |-> m.av, by |-> r, done |-> TRUE]]
                   /\ emitted' = [emitted EXCEPT ![r] =
                          <<newCookie(s, store, SessionName, s.ID)>>]
                   /\ ret' = [ret EXCEPT ![r] = Returned("Save", "nil")]
    /\ UNCHANGED <<store, now, nextId, pc, cookie, replaced>>

\* ------------------------------------------------------------- environment
\* The request ends (or the server recovers its panic); the slot serves the
\* next request.
Finish(r) ==
    /\ pc[r] \in {"handler", "panicked", "failed"}
    /\ pc' = [pc EXCEPT ![r] = "idle"]
    /\ cookie' = [cookie EXCEPT ![r] = NoCookie]
    /\ sess' = [sess EXCEPT ![r] = NilSession]
    /\ saves' = [saves EXCEPT ![r] = 0]
    /\ emitted' = [emitted EXCEPT ![r] = << >>]
    /\ loaded' = [loaded EXCEPT ![r] = NoLoad]
    /\ ret' = [ret EXCEPT ![r] = NoRet]
    /\ calls' = [calls EXCEPT ![r] = NoCalls]
    /\ UNCHANGED <<store, now, table, nextId, lastWrite, replaced>>

Tick ==
    /\ now < MaxTime
    /\ now' = now + 1
    /\ UNCHANGED <<store, table, nextId, pc, cookie, sess, saves, emitted, loaded,
                   ret, lastWrite, replaced, calls>>

\* ------------------------------------------------------------- Init
\* The cookie policy the store was built with: Path("/"), HTTPOnly(), MaxAge(n).
DefaultOptions(maxAge) ==
    [Path |-> "/", Domain |-> "", MaxAge |-> maxAge, Secure |-> FALSE, HttpOnly |-> TRUE]

\* New(tablename, opts...): the gob serializer unless codecs were given.
Stores ==
    {[tableName |-> "sessions", ttlField |-> DefaultTTLField, serializer |-> ser,
      options |-> DefaultOptions(1)] : ser \in {"gob", "codec"}}

InitRequests ==
    /\ now = 1
    /\ pc = [r \in Requests |-> "idle"]
    /\ cookie = [r \in Requests |-> NoCookie]
    /\ sess = [r \in Requests |-> NilSession]
    /\ saves = [r \in Requests |-> 0]
    /\ emitted = [r \in Requests |-> << >>]
    /\ loaded = [r \in Requests |-> NoLoad]
    /\ ret = [r \in Requests |-> NoRet]
    /\ lastWrite = [i \in Ids |-> [item |-> table[i], by |-> "seed", done |-> TRUE]]
    /\ replaced = [r \in Requests |-> NoItem]
    /\ calls = [r \in Requests |-> NoCalls]

GoodPayload(ser, v) ==
    IF ser = "codec" THEN CodecEncode(SessionName, v) ELSE GobEncode(v)

SeedBase(ser, id) ==
    (idField :> AttrS(id)) @@ (valuesField :> AttrS(GoodPayload(ser, "hello")))
    @@ (optionsField :> MarshalOptions(DefaultOptions(0)))

\* What another writer may have left under an id before the first request:
\* nothing, a sound record (with no ttl, with a ttl still to come, with a ttl of
\* zero or below), or a damaged one (with no ttl, or with one).
SeedItems(ser, id) ==
    { NoItem,
      SeedBase(ser, id),
      (DefaultTTLField :> AttrN(<<"2">>)) @@ SeedBase(ser, id),
      (DefaultTTLField :> AttrN(<<"0">>)) @@ SeedBase(ser, id),
      (DefaultTTLField :> AttrN(<<"-", "1">>)) @@ SeedBase(ser, id),
      (DefaultTTLField :> AttrN(<<"x">>)) @@ SeedBase(ser, id),
      (DefaultTTLField :> AttrS(<<"2">>)) @@ SeedBase(ser, id),
      (idField :> AttrS(id)) @@ (optionsField :> MarshalOptions(DefaultOptions(0))),
      (valuesField :> AttrN(<<"1">>)) @@ SeedBase(ser, id),
      (valuesField :> AttrS(JunkPayload)) @@ SeedBase(ser, id),
      (optionsField :> AttrS(JunkPayload)) @@ SeedBase(ser, id),
      (idField :> AttrS(id)) @@ (valuesField :> AttrS(GoodPayload(ser, "hello"))),
      (DefaultTTLField :> AttrN(<<"2">>)) @@ (idField :> AttrS(id))
          @@ (optionsField :> MarshalOptions(DefaultOptions(0))),
      (DefaultTTLField :> AttrN(<<"2">>)) @@ (valuesField :> AttrS(JunkPayload))
          @@ SeedBase(ser, id) }

\* A store over an empty table: every record is one a Save wrote.
Init ==
    /\ store \in Stores
    /\ table = [i \in Ids |-> NoItem]
    /\ nextId = 1
    /\ InitRequests

\* A store over a table that holds at most a record under the seed id.
InitLookup ==
    /\ store \in Stores
    /\ \E seed \in SeedItems(store.serializer, SeedId) :
           table = [i \in Ids |-> IF i = SeedId THEN seed ELSE NoItem]
    /\ nextId = SeedId + 1
    /\ InitRequests

\* A store over a table that holds one session, saved earlier.
InitConcurrent ==
    /\ store \in Stores
    /\ table = [i \in Ids |-> IF i = SeedId THEN SeedBase(store.serializer, SeedId)
                              ELSE NoItem]
    /\ nextId = SeedId + 1
    /\ InitRequests

Call(r, cookies) ==
    \/ \E c \in cookies, readOk \in BOOLEAN : New(r, c, readOk)
    \/ \E v \in ValueMaps, e \in OptionEdits, putOk \in BOOLEAN : Save(r, v, e, putOk)
    \/ \E deleteOk \in BOOLEAN : SaveDelete(r, deleteOk)

\* Requests one after another.
Next ==
    \/ Call("r1", {NoCookie} \cup Ids)
    \/ Finish("r1")
    \/ Tick

Spec == Init /\ [][Next]_vars

\* Two requests at once that carry the same session's cookie.
NextConcurrent ==
    \/ \E r \in Requests : Call(r, {SeedId})
    \/ Tick

SpecConcurrent == InitConcurrent /\ [][NextConcurrent]_vars

\* The earlier store, New(tableName, codecs...), over a table that holds at
\* most a record under the seed id.
InitStrict ==
    /\ store = [tableName |-> "sessions", ttlField |-> "", serializer |-> "codec",
                options |-> ZeroOptions]
    /\ \E seed \in SeedItems("codec", SeedId) :
           table = [i \in Ids |-> IF i = SeedId THEN seed ELSE NoItem]
    /\ nextId = SeedId + 1
    /\ InitRequests

NextStrict ==
    \/ \E c \in {NoCookie} \cup Ids, readOk \in BOOLEAN : StrictNew("r1", c, readOk)
    \/ \E v \in ValueMaps, e \in OptionEdits, putOk \in BOOLEAN :
           StrictSave("r1", v, e, putOk)
    \/ Finish("r1")

SpecStrict == InitStrict /\ [][NextStrict]_vars

\* ------------------------------------------------------------- serializers alone
\* The option sets and names a serializer is handed.
OptionSets ==
    [Path : {"", "/"}, Domain : {"", "example.com"}, MaxAge : MaxAges,
     Secure : BOOLEAN, HttpOnly : BOOLEAN]
Names == {SessionName, "other"}

Marshalled(name, err) == [op |-> "marshal", err |-> err, name |-> name]

\* A session as a caller builds it: values V, options O, an id or none.
InitSerializers ==
    /\ store \in Stores
    /\ table = [i \in Ids |-> NoItem]
    /\ nextId = 1
    /\ now = 1
    /\ pc = [r \in Requests |-> "idle"]
    /\ cookie = [r \in Requests |-> NoCookie]
    /\ saves = [r \in Requests |-> 0]
    /\ emitted = [r \in Requests |-> << >>]
    /\ loaded = [r \in Requests |-> NoLoad]
    /\ ret = [r \in Requests |-> NoRet]
    /\ lastWrite = [i \in Ids |-> [item |-> NoItem, by |-> "seed", done |-> TRUE]]
    /\ replaced = [r \in Requests |-> NoItem]
    /\ calls = [r \in Requests |-> NoCalls]
    /\ \E v \in ValueMaps, o \in OptionSets, id \in {EmptyString} \cup Ids :
           sess = [r \in Requests |->
                      IF r = "r1"
                      THEN [ID |-> id, IsNew |-> TRUE, Values |-> v,
                            Options |-> OwnOptions(o)]
                      ELSE NilSession]

\* serializer.marshal(name, session) of the session r1 holds.
SerializerMarshal(name) ==
    /\ pc["r1"] = "idle"
    /\ pc["r2"] = "idle"
    /\ LET m == marshal(store.serializer, name, sess["r1"])
       IN  /\ loaded' = [loaded EXCEPT !["r1"] =
                            [err |-> "none", item |-> m.av, at |-> now]]
           /\ ret' = [ret EXCEPT !["r1"] = Marshalled(name, m.err)]
    /\ pc' = [pc EXCEPT !["r1"] = "marshalled"]
    /\ UNCHANGED <<store, now, table, nextId, cookie, sess, saves, emitted,
                   lastWrite, replaced, calls>>

\* serializer.unmarshal(name, in, restored): restored is the session of r2.
unmarshalInto(name, in) ==
    LET u == unmarshal(store.serializer, name, in, NewSession)
    IN  /\ loaded' = [loaded EXCEPT !["r2"] = [err |-> u.err, item |-> in, at |-> now]]
        /\ IF u.err = "panic"
           THEN /\ pc' = [pc EXCEPT !["r2"] = "panicked"]
                /\ UNCHANGED <<sess, ret>>
           ELSE /\ pc' = [pc EXCEPT !["r2"] = "unmarshalled"]
                /\ sess' = [sess EXCEPT !["r2"] = u.s]
                /\ ret' = [ret EXCEPT !["r2"] = Returned("unmarshal", u.err)]
        /\ UNCHANGED <<store, now, table, nextId, cookie, saves, emitted,
                       lastWrite, replaced, calls>>

\* unmarshal of what marshal returned, under the same name.
SerializerUnmarshal ==
    /\ pc["r1"] = "marshalled"
    /\ pc["r2"] = "idle"
    /\ ret["r1"].err = "nil"
    /\ unmarshalInto(ret["r1"].name, loaded["r1"].item)

\* unmarshal of an item some other writer left.
SerializerUnmarshalItem(in) ==
    /\ pc["r1"] = "idle"
    /\ pc["r2"] = "idle"
    /\ unmarshalInto(SessionName, in)

NextSerializers ==
    \/ \E name \in Names : SerializerMarshal(name)
    \/ SerializerUnmarshal
    \/ \E in \in SeedItems(store.serializer, SeedId) : SerializerUnmarshalItem(in)

SpecSerializers == InitSerializers /\ [][NextSerializers]_vars

\* Lookups of whatever the table holds, through New and by unmarshal alone.
NextLookup ==
    \/ \E c \in {NoCookie} \cup Ids, readOk \in BOOLEAN : New("r1", c, readOk)
    \/ Finish("r1")
    \/ Tick
    \/ \E in \in {NoItem, table[SeedId]} : SerializerUnmarshalItem(in)

SpecLookup == InitLookup /\ [][NextLookup]_vars

\* ------------------------------------------------------------- the SDK-v2 store
\* The store of store.go keeps a session's values as the item's attributes,
\* under the key SessionHashKey.  A value of session.Values is a Go string
\* [str], an attribute value Load copied in [av], or something else [other].
SessionHashKey == "SessionHashKey"
NoValues == << >>
StrValue(x) == [str |-> x]
IsStr(v) == "str" \in DOMAIN v

\* What a handler does to session.Values before it calls Save.
ValueEdits == {"keep", "hello", "other"}
assignedValues(vals, ve) ==
    IF ve = "hello" THEN ("hello" :> StrValue("world")) @@ vals
    ELSE IF ve = "other" THEN ("n" :> [other |-> TRUE]) @@ vals
    ELSE vals

\* store.ddb.GetItem of the SDK: it returns (nil, err) when the call fails.
GetItemV2(tbl, id, readOk) ==
    IF readOk THEN [nil |-> FALSE, Item |-> tbl[id], err |-> "nil"]
    ELSE [nil |-> TRUE, Item |-> NoItem, err |-> "GetItemError"]

\* Store.Load: it ranges over out.Item before it looks at err, copies every
\* attribute into session.Values and returns err; it assigns neither the
\* session's ID nor IsNew.
Load(out, s) ==
    IF out.nil THEN [err |-> "panic", s |-> s]
    ELSE [err |-> out.err,
          s |-> [s EXCEPT !.Values = [k \in DOMAIN out.Item |-> [av |-> out.Item[k]]] @@ @]]

\* Store.Persist: session.Values[SessionHashKey] = session.ID, then every value
\* asserted to be a string, then PutItem; a key that is the empty string is
\* refused by the table.
Persist(s, putOk) ==
    LET vals == (SessionHashKey :> StrValue(s.ID)) @@ s.Values
        s1 == [s EXCEPT !.Values = vals]
    IN  IF \E k \in DOMAIN vals : ~IsStr(vals[k])
        THEN [err |-> "panic", s |-> s1, item |-> NoItem]
        ELSE IF ~putOk \/ s.ID = EmptyString
        THEN [err |-> "PutItemError", s |-> s1, item |-> NoItem]
        ELSE [err |-> "nil", s |-> s1,
              item |-> [k \in DOMAIN vals |-> AttrS(vals[k].str)]]

NewSessionV2 == [NewSession EXCEPT !.Values = NoValues]

\* Store.New of store.go.
NewV2(r, c, readOk) ==
    /\ pc[r] = "idle"
    /\ CookieInput(c, readOk)
    /\ cookie' = [cookie EXCEPT ![r] = c]
    /\ LET out == GetItemV2(table, c, readOk)
           l == IF c = NoCookie THEN [err |-> "none", s |-> NewSessionV2]
                ELSE Load(out, NewSessionV2)
       IN  /\ loaded' = [loaded EXCEPT ![r] =
                  IF c = NoCookie THEN NoLoad
                  ELSE [err |-> out.err, item |-> out.Item, at |-> now]]
           /\ IF l.err = "nil"
              THEN /\ sess' = [sess EXCEPT ![r] = l.s]
                   /\ ret' = [ret EXCEPT ![r] = Returned("New", "nil")]
                   /\ pc' = [pc EXCEPT ![r] = "handler"]
                   /\ UNCHANGED nextId
              ELSE IF l.err = "panic"
              THEN /\ pc' = [pc EXCEPT ![r] = "panicked"]
                   /\ UNCHANGED <<sess, ret, nextId>>
              ELSE /\ nextId \in Ids
                   /\ sess' = [sess EXCEPT ![r] =
                                  [freshSession(nextId) EXCEPT !.Values = NoValues]]
                   /\ ret' = [ret EXCEPT ![r] = Returned("New", "nil")]
                   /\ nextId' = nextId + 1
                   /\ pc' = [pc EXCEPT ![r] = "handler"]
    /\ UNCHANGED <<store, now, table, saves, emitted, lastWrite, replaced, calls>>

\* The handler assigns values and options and calls Store.Save of store.go,
\* which runs to its first return or to its DeleteItem call: Persist, then the
\* cookie.
SaveV2(r, ve, e, putOk) ==
    /\ pc[r] = "handler"
    /\ saves[r] < MaxSaves
    /\ saves' = [saves EXCEPT ![r] = @ + 1]
    /\ EditApplies(sess[r], e)
    /\ LET s0 == editedSession(sess[r], assignedValues(sess[r].Values, ve), e)
           p == Persist(s0, putOk)
           s == p.s
       IN  /\ store' = editedStore(sess[r], e)
           /\ loaded' = [loaded EXCEPT ![r] = NoLoad]
           /\ calls' = [calls EXCEPT ![r] =
                  [put |-> putCalls(IF p.err = "panic" THEN p.err ELSE "nil", putOk),
                   delete |-> 0]]
           /\ sess' = [sess EXCEPT ![r] = s]
           /\ IF p.err = "panic"
              THEN /\ pc' = [pc EXCEPT ![r] = "panicked"]
                   /\ emitted' = [emitted EXCEPT ![r] = << >>]
                   /\ UNCHANGED <<table, lastWrite, ret, replaced>>
              ELSE IF p.err # "nil"
              THEN /\ ret' = [ret EXCEPT ![r] = Returned("Save", p.err)]
                   /\ emitted' = [emitted EXCEPT ![r] = << >>]
                   /\ UNCHANGED <<table, lastWrite, pc, replaced>>
              ELSE /\ table' = [table EXCEPT ![s.ID] = p.item]
                   /\ lastWrite' = [lastWrite EXCEPT ![s.ID] = [item |-> p.item, by |-> r, done |-> ~deletes(s, store)]]
                   /\ IF deletes(s, store)
                      THEN /\ emitted' = [emitted EXCEPT ![r] =
                                  <<newCookie(s, store, SessionName, EmptyString)>>]
                           /\ pc' = [pc EXCEPT ![r] = "deleting"]
                           /\ replaced' = [replaced EXCEPT ![r] = table[s.ID]]
                           /\ ret' = [ret EXCEPT ![r] = Returned("Save", "pending")]
                      ELSE IF ~s.IsNew
                      THEN /\ emitted' = [emitted EXCEPT ![r] = << >>]
                           /\ ret' = [ret EXCEPT ![r] = Returned("Save", "nil")]
                           /\ UNCHANGED <<pc, replaced>>
                      ELSE /\ emitted' = [emitted EXCEPT ![r] =
                                  <<newCookie(s, store, SessionName, s.ID)>>]
                           /\ ret' = [ret EXCEPT ![r] = Returned("Save", "nil")]
                           /\ UNCHANGED <<pc, replaced>>
    /\ UNCHANGED <<now, nextId, cookie>>

\* Store.Delete: DeleteItem under the key SessionHashKey.
Delete(tbl, id) == [tbl EXCEPT ![id] = NoItem]

\* The rest of a Save of store.go with a negative max-age.
SaveDeleteV2(r, deleteOk) ==
    /\ pc[r] = "deleting"
    /\ pc' = [pc EXCEPT ![r] = "handler"]
    /\ replaced' = [replaced EXCEPT ![r] = NoItem]
    /\ calls' = [calls EXCEPT ![r].delete = @ + 1]
    /\ IF deleteOk
       THEN /\ table' = Delete(table, sess[r].ID)
            /\ lastWrite' = [lastWrite EXCEPT ![sess[r].ID] = [item |-> NoItem, by |-> r, done |-> TRUE]]
            /\ ret' = [ret EXCEPT ![r] = Returned("Save", "nil")]
       ELSE /\ ret' = [ret EXCEPT ![r] = Returned("Save", "DeleteItemError")]
            /\ UNCHANGED <<table, lastWrite>>
    /\ UNCHANGED <<store, now, nextId, cookie, sess, saves, emitted, loaded>>

\* New(tablename, client, opts...) of store.go, over an empty table.
InitV2 ==
    /\ store = [tableName |-> "sessions", options |-> DefaultOptions(1)]
    /\ table = [i \in Ids |-> NoItem]
    /\ nextId = 1
    /\ InitRequests

NextV2 ==
    \/ \E c \in {NoCookie} \cup Ids, readOk \in BOOLEAN : NewV2("r1", c, readOk)
    \/ \E ve \in ValueEdits, e \in OptionEdits, putOk \in BOOLEAN :
           SaveV2("r1", ve, e, putOk)
    \/ \E deleteOk \in BOOLEAN : SaveDeleteV2("r1", deleteOk)
    \/ Finish("r1")

SpecV2 == InitV2 /\ [][NextV2]_vars

\* ------------------------------------------------------------- properties
\* The request is in its handler and its latest call, op, returned err.
Has(r, op, err) == ret[r] = Returned(op, err)

\* The session of r carries options with max-age m.
MaxAgeOf(r) == Deref(sess[r].Options).MaxAge
HasOptions(r) == sess[r] # NilSession /\ sess[r].Options.at # "nil"

\* The ttl attribute of an item, when it holds a number.
HasTTL(item) ==
    /\ item # NoItem
    /\ DefaultTTLField \in DOMAIN item
    /\ IsN(item[DefaultTTLField])
    /\ ParseInt(item[DefaultTTLField].N).ok
TTLOf(item) == ParseInt(item[DefaultTTLField].N).v

\* New looked the cookie of r up and GetItem gave it a record.
FoundRecord(r) ==
    /\ ret[r].op = "New"
    /\ cookie[r] # NoCookie
    /\ loaded[r].err # "GetItemError"
    /\ loaded[r].item # NoItem

\* C1: (a) a successful Save of a session New created for a request with no
\* cookie, saved with a non-negative max-age, emits exactly one cookie, whose
\* value is the session's non-empty id; (b) a later New that carries an id and
\* reads a record Save wrote, the record's ttl absent or not yet behind the
\* clock, returns the session of that id with isNew false and no error.
C1_SaveThenFound ==
    \A r \in Requests :
        /\ (/\ Has(r, "Save", "nil")
            /\ cookie[r] = NoCookie
            /\ HasOptions(r)
            /\ MaxAgeOf(r) >= 0)
           => /\ Len(emitted[r]) = 1
              /\ emitted[r][1].Name = SessionName
              /\ emitted[r][1].Value = sess[r].ID
              /\ sess[r].ID # EmptyString
        /\ (/\ FoundRecord(r)
            /\ HasTTL(loaded[r].item) => TTLOf(loaded[r].item) >= loaded[r].at)
           => /\ Has(r, "New", "nil")
              /\ ~sess[r].IsNew
              /\ sess[r].ID = cookie[r]
              /\ sess[r].Values = loaded[r].item[valuesField].S.v

\* A request found, at the second of its expiry, the session an earlier request
\* created and saved with a positive max-age.
C1_Witness ==
    \E r \in Requests :
        /\ FoundRecord(r)
        /\ HasTTL(loaded[r].item)
        /\ TTLOf(loaded[r].item) = loaded[r].at
        /\ ~sess[r].IsNew
        /\ sess[r].ID = cookie[r]
        /\ lastWrite[cookie[r]].by = "r1"

\* C2: a successful Save of a found session whose max-age is negative has
\* emitted exactly one cookie, with the empty value, and the record is gone; a
\* New that carries the id of an absent record returns a new session.
C2_NegativeMaxAgeDeletes ==
    \A r \in Requests :
        /\ (/\ Has(r, "Save", "nil")
            /\ ~sess[r].IsNew
            /\ HasOptions(r)
            /\ MaxAgeOf(r) < 0)
           => /\ Len(emitted[r]) = 1
              /\ emitted[r][1].Value = EmptyString
              /\ emitted[r][1].MaxAge < 0
              /\ table[sess[r].ID] = NoItem
        /\ (/\ ret[r].op = "New"
            /\ cookie[r] # NoCookie
            /\ table[cookie[r]] = NoItem)
           => /\ Has(r, "New", "nil")
              /\ sess[r].IsNew
              /\ sess[r].ID # cookie[r]

\* A found session was saved with a negative max-age and its record removed.
C2_Witness ==
    \E r \in Requests :
        /\ Has(r, "Save", "nil")
        /\ cookie[r] # NoCookie
        /\ sess[r].ID = cookie[r]
        /\ ~sess[r].IsNew
        /\ HasOptions(r)
        /\ MaxAgeOf(r) < 0
        /\ table[sess[r].ID] = NoItem
        /\ lastWrite[sess[r].ID].item = NoItem
        /\ lastWrite[sess[r].ID].by = r

SavePut(r) ==
    /\ pc[r] = "handler"
    /\ saves'[r] = saves[r] + 1
    /\ ret'[r].err \in {"nil", "pending"}

\* The step is a New of r that read the record under the cookie it carries.
NewRead(r) ==
    /\ pc[r] = "idle"
    /\ pc'[r] # "idle"
    /\ cookie'[r] # NoCookie
    /\ loaded'[r].err # "GetItemError"

\* A Save with a positive max-age writes ttl = clock + max-age.
SaveWritesExpiry(r) ==
    (/\ SavePut(r)
     /\ sess'[r].Options.at = "heap"
     /\ sess'[r].Options.val.MaxAge > 0)
    => /\ HasTTL(table'[sess'[r].ID])
       /\ TTLOf(table'[sess'[r].ID]) = now + sess'[r].Options.val.MaxAge

\* The step is a New of r that read a record, its positive ttl at or behind
\* the clock by at least `behind` seconds.
NewReadExpiry(r, behind) ==
    /\ NewRead(r)
    /\ HasTTL(table[cookie'[r]])
    /\ TTLOf(table[cookie'[r]]) > 0
    /\ now >= TTLOf(table[cookie'[r]]) + behind

NewFindsNothing(r) ==
    /\ loaded'[r].err = "NotFound"
    /\ ret'[r] = Returned("New", "nil")
    /\ sess'[r].IsNew
    /\ sess'[r].ID # cookie'[r]

\* C4 as the specification states it: a record saved at T with max-age M has
\* ttl T+M, and a lookup at any t >= T+M, t = T+M included, finds nothing.
C4_NotFoundFromExpiry ==
    [][\A r \in Requests :
           /\ SaveWritesExpiry(r)
           /\ NewReadExpiry(r, 0) => NewFindsNothing(r)]_vars

\* C4: a record saved at T with max-age M > 0 has ttl T+M, and a lookup at any
\* t > T+M finds nothing: New returns a new session under another id.
C4_NotFoundAfterExpiry ==
    [][\A r \in Requests :
           /\ SaveWritesExpiry(r)
           /\ NewReadExpiry(r, 1) => NewFindsNothing(r)]_vars

\* A record a request saved with a ttl was looked up later than the ttl and
\* not found.
C4_Witness ==
    \E r \in Requests :
        /\ FoundRecord(r)
        /\ HasTTL(loaded[r].item)
        /\ loaded[r].at > TTLOf(loaded[r].item)
        /\ lastWrite[cookie[r]].item = loaded[r].item
        /\ lastWrite[cookie[r]].by = "r1"
        /\ loaded[r].err = "NotFound"
        /\ sess[r].IsNew

\* C5 as the specification states it: whenever Save returns an error, it has
\* emitted no cookie, the Save with a negative max-age whose delete fails
\* included.
C5_ErrorMeansNoCookie ==
    \A r \in Requests :
        (ret[r].op = "Save" /\ ret[r].err \notin {"nil", "pending"})
        => emitted[r] = << >>

\* C6 as the specification states it: New turns not-found, an expired record
\* and a payload that does not decode into a new session; every other failure
\* of load it returns as an error.
C6_OtherLoadErrorsReturned ==
    \A r \in Requests :
        (/\ ret[r].op = "New"
         /\ loaded[r].err \in {"GetItemError", "MalformedSession", "UnmarshalTypeError"})
        => ret[r].err = loaded[r].err

\* C7 as the specification states it: New returns a non-nil session on every
\* path, the earlier store's return of a load error included.
C7_NewNeverNilSession ==
    \A r \in Requests : ret[r].op = "New" => sess[r] # NilSession

\* C8 as the specification states it: after Save returns success for a session
\* that was new, the session's isNew is false.
C8_SaveClearsIsNew ==
    \A r \in Requests : Has(r, "Save", "nil") => ~sess[r].IsNew

\* C8: Save leaves isNew as New set it: after Save returns success, isNew is
\* still true for a session New created and false for a session New found.
C8_SaveKeepsIsNew ==
    \A r \in Requests :
        Has(r, "Save", "nil")
        => /\ sess[r].ID # cookie[r] => sess[r].IsNew
           /\ sess[r].ID = cookie[r] => ~sess[r].IsNew

\* A session New created was saved, its cookie emitted, and is still new.
C8_Witness ==
    \E r \in Requests :
        /\ Has(r, "Save", "nil")
        /\ cookie[r] = NoCookie
        /\ Len(emitted[r]) = 1
        /\ table[sess[r].ID] # NoItem
        /\ sess[r].IsNew

\* An item less its ttl attribute.
WithoutTTL(item) == [k \in DOMAIN item \ {DefaultTTLField} |-> item[k]]

\* Request r holds the session its latest Save put.
LastPutBy(r, id) ==
    /\ lastWrite[id].by = r
    /\ lastWrite[id].item # NoItem
    /\ ret[r].op = "Save"
    /\ ret[r].err \in {"nil", "pending", "DeleteItemError"}
    /\ sess[r].ID = id

\* C9: the record under an id is, in full, the item of the latest put (nothing
\* after a delete): with two requests saving the same id, its attributes are
\* those of the session the later put marshalled, with a ttl exactly when that
\* session's max-age is positive, and nothing of the earlier put is left.
C9_LastPutWins ==
    \A id \in Ids :
        /\ table[id] = lastWrite[id].item
        /\ \A r \in Requests :
               LastPutBy(r, id)
               => /\ WithoutTTL(table[id])
                        = marshal(store.serializer, SessionName, sess[r]).av
                  /\ (DefaultTTLField \in DOMAIN table[id]) <=> savesTTL(sess[r], store)
                  /\ savesTTL(sess[r], store)
                     => /\ HasTTL(table[id])
                        /\ TTLOf(table[id]) <= now + MaxAgeOf(r)

\* Both requests saved the same found session, the first with a ttl and other
\* values, the second without a ttl; the record is the second's.
C9_Witness ==
    \E r, q \in Requests :
        /\ r # q
        /\ Has(r, "Save", "nil") /\ Has(q, "Save", "nil")
        /\ sess[r].ID = SeedId /\ sess[q].ID = SeedId
        /\ HasOptions(r) /\ HasOptions(q)
        /\ MaxAgeOf(r) = 0 /\ MaxAgeOf(q) > 0
        /\ sess[r].Values # sess[q].Values
        /\ LastPutBy(r, SeedId)
        /\ table[SeedId] = marshal(store.serializer, SessionName, sess[r]).av

\* C10: no step of a request (New, the handler's edits of its session's
\* options, Save, the delete) changes a field of the store.
C10_StoreNeverChanges == [][store' = store]_vars

\* A session New created was saved with its options' max-age changed; the
\* store's default is as it was built.
C10_Witness ==
    \E r \in Requests :
        /\ ret[r].op = "Save"
        /\ sess[r].IsNew
        /\ HasOptions(r)
        /\ MaxAgeOf(r) # store.options.MaxAge
        /\ store.options = DefaultOptions(1)

\* The step is the delete a Save with a negative max-age ends with.
DeleteStep(r) == pc[r] = "deleting" /\ pc'[r] = "handler"

\* C11: every save that puts its record leaves under the id an item with a ttl
\* attribute exactly when the session has options with a positive max-age, the
\* ttl then the clock plus the max-age; with a max-age of zero or below, or no
\* options, the item has no ttl whatever the record before it held; and only a
\* put or a delete changes the table.
C11_TTLFollowsLatestSave ==
    [][/\ \A r \in Requests :
              SavePut(r)
              => LET s == sess'[r]
                     item == table'[s.ID]
                 IN  /\ item # NoItem
                     /\ item = lastWrite'[s.ID].item
                     /\ IF s.Options.at = "heap" /\ s.Options.val.MaxAge > 0
                        THEN /\ HasTTL(item)
                             /\ TTLOf(item) = now + s.Options.val.MaxAge
                        ELSE DefaultTTLField \notin DOMAIN item
       /\ table' # table => \E r \in Requests : SavePut(r) \/ DeleteStep(r)]_vars

\* A request saved the session with a positive max-age, then the other saved it
\* with no options: the record has no ttl and no options.
C11_Witness ==
    \E r, q \in Requests :
        /\ r # q
        /\ Has(r, "Save", "nil") /\ Has(q, "Save", "nil")
        /\ sess[r].ID = SeedId /\ sess[q].ID = SeedId
        /\ HasOptions(q) /\ MaxAgeOf(q) > 0
        /\ sess[r].Options.at = "nil"
        /\ LastPutBy(r, SeedId)
        /\ DOMAIN table[SeedId] = {idField, valuesField}

\* The step is a Save of r that returned before it wrote: marshal or PutItem
\* failed.
SaveFailedEarly(r) ==
    /\ pc[r] = "handler"
    /\ saves'[r] = saves[r] + 1
    /\ ret'[r].err \in {"EncodeFailed", "PutItemError"}

\* C12 as the specification states it: when a Save fails, the record is as it
\* was before the Save or as the completed Save would leave it; for a Save
\* with a negative max-age whose delete fails that is the record it replaced,
\* or none.
C12_FailedSaveNotPartial ==
    [][\A r \in Requests :
           /\ SaveFailedEarly(r) => table' = table
           /\ (DeleteStep(r) /\ ret'[r].err = "DeleteItemError")
              => table'[sess[r].ID] \in {replaced[r], NoItem}]_vars

LacksValues(item) ==
    /\ item # NoItem
    /\ idField \in DOMAIN item
    /\ valuesField \notin DOMAIN item \/ ~IsS(item[valuesField])

\* C14 as the specification states it: for both serializers, unmarshal of a
\* record with no values attribute, or one that is not a string, returns
\* MalformedSession: it does not succeed and it does not crash.
C14_NoValuesIsMalformed ==
    (pc["r2"] # "idle" /\ LacksValues(loaded["r2"].item))
    => /\ pc["r2"] = "unmarshalled"
       /\ Has("r2", "unmarshal", "MalformedSession")

\* C15: for both serializers unmarshal of the empty record returns NotFound
\* and leaves the session as it was, and load returns NotFound when GetItem
\* succeeds and finds no item under the id.
C15_EmptyIsNotFound ==
    /\ (pc["r2"] # "idle" /\ loaded["r2"].item = NoItem)
       => /\ Has("r2", "unmarshal", "NotFound")
          /\ sess["r2"] = NewSession
    /\ \A r \in Requests :
           (/\ ret[r].op = "New"
            /\ cookie[r] # NoCookie
            /\ loaded[r].err # "GetItemError"
            /\ loaded[r].item = NoItem)
           => loaded[r].err = "NotFound"

\* unmarshal was handed the empty record, and a New read an id with no item.
C15_Witness ==
    /\ Has("r2", "unmarshal", "NotFound")
    /\ loaded["r2"].item = NoItem
    /\ ret["r1"].op = "New"
    /\ cookie["r1"] # NoCookie
    /\ table[cookie["r1"]] = NoItem
    /\ loaded["r1"].err = "NotFound"

\* C16: when the record load read has a ttl attribute that is not a number or
\* does not parse as an integer, load returns MalformedSession: not NotFound,
\* and the session New returns is not the record's.
C16_BadTTLIsMalformed ==
    \A r \in Requests :
        (/\ FoundRecord(r)
         /\ DefaultTTLField \in DOMAIN loaded[r].item
         /\ ~HasTTL(loaded[r].item))
        => /\ loaded[r].err = "MalformedSession"
           /\ sess[r].IsNew
           /\ sess[r].ID # cookie[r]
           /\ sess[r].Values = "empty"

\* A record whose ttl is a number that does not parse was read.
C16_Witness ==
    \E r \in Requests :
        /\ FoundRecord(r)
        /\ DefaultTTLField \in DOMAIN loaded[r].item
        /\ IsN(loaded[r].item[DefaultTTLField])
        /\ ~ParseInt(loaded[r].item[DefaultTTLField].N).ok
        /\ loaded[r].err = "MalformedSession"

\* The options a cookie of the session of r is built from: the session's, or
\* the zero options when it has none.
CookieOptions(r) ==
    IF sess[r].Options.at = "nil" THEN ZeroOptions ELSE Deref(sess[r].Options)

\* C17: every cookie a Save emitted carries the session's name; its value is
\* the empty string when the session has options with a negative max-age and
\* the session's id, which is not empty, otherwise (never the values payload);
\* its path, domain, max-age, secure and http-only are those of the session's
\* options as saved.
C17_CookieCarriesIdAndOptions ==
    \A r \in Requests :
        \A i \in 1..Len(emitted[r]) :
            LET c == emitted[r][i]
                o == CookieOptions(r)
            IN  /\ c.Name = SessionName
                /\ c.Value \in Ids \cup {EmptyString}
                /\ (c.Value = EmptyString) <=> (HasOptions(r) /\ MaxAgeOf(r) < 0)
                /\ c.Value # EmptyString => c.Value = sess[r].ID
                /\ c.Path = o.Path
                /\ c.Domain = o.Domain
                /\ c.MaxAge = o.MaxAge
                /\ c.Secure = o.Secure
                /\ c.HttpOnly = o.HttpOnly

\* A Save emitted the cookie of a new session whose max-age the handler had
\* changed from the store's default.
C17_Witness ==
    \E r \in Requests :
        /\ Has(r, "Save", "nil")
        /\ Len(emitted[r]) = 1
        /\ emitted[r][1].Value = sess[r].ID
        /\ emitted[r][1].MaxAge = 0
        /\ emitted[r][1].Path = "/"
        /\ store.options.MaxAge # 0

\* The errors of load other than not-found.
LoadFailures == {"GetItemError", "MalformedSession", "DecodeFailed", "UnmarshalTypeError"}

\* C18: in the earlier store, a New whose load fails with an error other than
\* not-found (a failed read, a malformed record, a payload that does not
\* decode, options that do not unmarshal) returns that error, and generates no
\* session id.
C18_StrictNewReturnsLoadError ==
    [][\A r \in Requests :
           (/\ pc[r] = "idle"
            /\ pc'[r] # "idle"
            /\ loaded'[r].err \in LoadFailures)
           => /\ ret'[r] = Returned("New", loaded'[r].err)
              /\ nextId' = nextId
              /\ sess'[r] = NilSession]_vars

\* New of the earlier store returned the decode failure of a record it read.
C18_Witness ==
    \E r \in Requests :
        /\ Has(r, "New", "DecodeFailed")
        /\ loaded[r].err = "DecodeFailed"
        /\ loaded[r].item # NoItem
        /\ pc[r] = "failed"
        /\ nextId = SeedId + 1

\* C19 as the specification states it: in the store of store.go, when the
\* table read fails Load returns the error (it does not crash), and New falls
\* back to a new session.
C19_V2ReadErrorGivesNewSession ==
    \A r \in Requests :
        (cookie[r] # NoCookie /\ loaded[r].err = "GetItemError")
        => /\ pc[r] = "handler"
           /\ Has(r, "New", "nil")
           /\ sess[r].IsNew

\* C20: after a successful Save the cookies it emitted are settled by the
\* session alone: with options whose max-age is negative, one cookie with the
\* empty value and no record under the id; otherwise one cookie with the id
\* when the session is new and no cookie when it is not. No Save emits more
\* than one cookie.
C20_CookieDecision ==
    \A r \in Requests :
        /\ Len(emitted[r]) <= 1
        /\ Has(r, "Save", "nil")
           => IF HasOptions(r) /\ MaxAgeOf(r) < 0
              THEN /\ Len(emitted[r]) = 1
                   /\ emitted[r][1].Value = EmptyString
                   /\ table[sess[r].ID] = NoItem
              ELSE IF sess[r].IsNew
              THEN /\ Len(emitted[r]) = 1
                   /\ emitted[r][1].Value = sess[r].ID
                   /\ table[sess[r].ID] # NoItem
              ELSE /\ emitted[r] = << >>
                   /\ table[sess[r].ID] # NoItem

\* A found session with a max-age of zero was saved: no cookie, and the record
\* is the one this Save put.
C20_Witness ==
    \E r \in Requests :
        /\ Has(r, "Save", "nil")
        /\ ~sess[r].IsNew
        /\ sess[r].ID = cookie[r]
        /\ HasOptions(r)
        /\ MaxAgeOf(r) = 0
        /\ emitted[r] = << >>
        /\ lastWrite[sess[r].ID].by = r
        /\ table[sess[r].ID] = lastWrite[sess[r].ID].item

\* The step is a Save call of r, up to its first return or its DeleteItem call.
SaveStep(r) == pc[r] = "handler" /\ saves'[r] = saves[r] + 1

\* marshal's error for the session the Save of this step was handed.
MarshalErr(r) == marshal(store'.serializer, SessionName, sess'[r]).err

\* The Save of this step failed in marshal or in PutItem.
SaveFails(r) ==
    SaveStep(r) /\ (MarshalErr(r) # "nil" \/ ret'[r].err = "PutItemError")

\* The Save of this step returned the error of marshal or of PutItem, set no
\* cookie, goes on to no delete, and the table is as it was.
FailureReturned(r) ==
    /\ ret'[r] = Returned("Save", IF MarshalErr(r) # "nil" THEN MarshalErr(r)
                                  ELSE "PutItemError")
    /\ emitted'[r] = << >>
    /\ pc'[r] = "handler"
    /\ calls'[r].delete = 0
    /\ table' = table
    /\ lastWrite' = lastWrite

\* C21 as the specification states it: a Save that fails in marshal or in the
\* put returns that error, sets no cookie, deletes nothing and leaves the
\* table alone; and every Save makes exactly one put call and at most one
\* delete call.
C21_OnePutEverySave ==
    [][\A r \in Requests :
           /\ SaveFails(r) => FailureReturned(r)
           /\ SaveStep(r) => calls'[r].put = 1 /\ calls'[r].delete = 0
           /\ DeleteStep(r) => calls'[r].put = 1 /\ calls'[r].delete = 1]_vars

\* C21: a Save that fails in marshal or in the put returns that error, sets no
\* cookie, deletes nothing and leaves the table alone; a Save makes no put
\* call when marshal failed and exactly one otherwise, and one delete call
\* exactly when it reaches the deleting branch.
C21_FailureReturnedNoRetry ==
    [][\A r \in Requests :
           /\ SaveFails(r) => FailureReturned(r)
           /\ SaveStep(r)
              => /\ calls'[r].put = (IF MarshalErr(r) = "nil" THEN 1 ELSE 0)
                 /\ calls'[r].delete = 0
           /\ DeleteStep(r) => calls'[r].put = 1 /\ calls'[r].delete = 1]_vars

\* A found session was saved with values marshal cannot encode: the error is
\* returned, no put was made, and the record is the one an earlier Save put.
C21_Witness ==
    \E r \in Requests :
        /\ Has(r, "Save", "EncodeFailed")
        /\ calls[r] = NoCalls
        /\ emitted[r] = << >>
        /\ sess[r].ID = cookie[r]
        /\ table[sess[r].ID] # NoItem
        /\ table[sess[r].ID] = lastWrite[sess[r].ID].item

\* The item has a string id and a values string the store's serializer decodes
\* under the session's name.
SoundItem(in) ==
    /\ in # NoItem
    /\ idField \in DOMAIN in /\ IsS(in[idField])
    /\ valuesField \in DOMAIN in /\ IsS(in[valuesField])
    /\ in[valuesField].S = GoodPayload(store.serializer, in[valuesField].S.v)

\* C22: after an unmarshal that returned no error the session is not new, its
\* id is the record's id field, its values are the map the record's values
\* string carries, and its options, when the record has an options field, are
\* the ones that field was marshalled from; a sound record with no options
\* field unmarshals without error and the session keeps the options it had.
C22_UnmarshalHydrates ==
    LET in == loaded["r2"].item
        s == sess["r2"]
    IN  /\ (pc["r2"] = "unmarshalled" /\ Has("r2", "unmarshal", "nil"))
           => /\ ~s.IsNew
              /\ s.ID = in[idField].S
              /\ s.Values = in[valuesField].S.v
              /\ IF optionsField \in DOMAIN in
                 THEN /\ s.Options.at = "heap"
                      /\ MarshalOptions(s.Options.val) = in[optionsField]
                 ELSE s.Options = NewSession.Options
        /\ (/\ pc["r2"] # "idle"
            /\ pc["r1"] = "idle"
            /\ SoundItem(in)
            /\ optionsField \notin DOMAIN in)
           => /\ Has("r2", "unmarshal", "nil")
              /\ s.Options = NewSession.Options

\* A record with an id and values and no options field was unmarshalled.
C22_Witness ==
    /\ pc["r2"] = "unmarshalled"
    /\ Has("r2", "unmarshal", "nil")
    /\ DOMAIN loaded["r2"].item = {idField, valuesField}
    /\ sess["r2"].ID = SeedId
    /\ sess["r2"].Values = "hello"
    /\ sess["r2"].Options = OwnOptions(ZeroOptions)

\* The New of r hydrated nothing: the request carried no cookie, or the read
\* found no record under the cookie, or a record whose ttl is behind the clock.
NothingToHydrate(r) ==
    /\ ret[r].op = "New"
    /\ \/ cookie[r] = NoCookie
       \/ /\ FoundRecord(r) \/ (loaded[r].err # "GetItemError" /\ loaded[r].item = NoItem)
          /\ cookie[r] # NoCookie
          /\ \/ loaded[r].item = NoItem
             \/ /\ HasTTL(loaded[r].item)
                /\ TTLOf(loaded[r].item) > 0
                /\ TTLOf(loaded[r].item) < loaded[r].at

\* C23: a New of the store of options.go that carried no cookie, or whose
\* cookie names no record or an expired one, returned without error a session
\* that is new, under the id the store generated last (not empty, not the
\* cookie's), with path, domain, max-age, secure and http-only those of the
\* store's options.
C23_FreshSessionHasDefaults ==
    \A r \in Requests :
        NothingToHydrate(r)
        => /\ Has(r, "New", "nil")
           /\ pc[r] = "handler"
           /\ sess[r].IsNew
           /\ sess[r].ID \in Ids
           /\ sess[r].ID # EmptyString
           /\ sess[r].ID # cookie[r]
           /\ sess[r].ID = nextId - 1
           /\ sess[r].Values = "empty"
           /\ HasOptions(r)
           /\ Deref(sess[r].Options).Path = store.options.Path
           /\ Deref(sess[r].Options).Domain = store.options.Domain
           /\ Deref(sess[r].Options).MaxAge = store.options.MaxAge
           /\ Deref(sess[r].Options).Secure = store.options.Secure
           /\ Deref(sess[r].Options).HttpOnly = store.options.HttpOnly

\* A New carried the cookie of a record whose ttl had passed and returned a
\* new session with the store's options.
C23_Witness ==
    \E r \in Requests :
        /\ Has(r, "New", "nil")
        /\ cookie[r] = SeedId
        /\ HasTTL(loaded[r].item)
        /\ TTLOf(loaded[r].item) < loaded[r].at
        /\ sess[r].IsNew
        /\ sess[r].ID # cookie[r]
        /\ Deref(sess[r].Options) = DefaultOptions(1)

\* C24 as the specification states it: in the store of store.go, a New whose
\* cookie names no record returns a new session, under a generated id that is
\* not empty, with the store's options.
C24_V2AbsentRecordGivesNewSession ==
    \A r \in Requests :
        (/\ ret[r].op = "New"
         /\ cookie[r] # NoCookie
         /\ loaded[r].err = "nil"
         /\ loaded[r].item = NoItem)
        => /\ sess[r].IsNew
           /\ sess[r].ID # EmptyString
           /\ sess[r].ID # cookie[r]
           /\ HasOptions(r)
           /\ Deref(sess[r].Options) = store.options

\* The request's New read a record under the cookie it carries.
ReadRecord(r) ==
    /\ cookie[r] # NoCookie
    /\ loaded[r].err = "nil"
    /\ loaded[r].item # NoItem

\* C25 as the specification states it: in the store of store.go, a New that
\* carries the cookie of a record a Save wrote returns a session that is not
\* new and whose id is the cookie's value, and the Save that follows returns
\* (with no error unless the table's put failed) and sets no cookie.
C25_V2SavedSessionComesBack ==
    [][\A r \in Requests :
           /\ (pc[r] = "idle" /\ pc'[r] # "idle" /\ ReadRecord(r)')
              => /\ pc'[r] = "handler"
                 /\ ~sess'[r].IsNew
                 /\ sess'[r].ID = cookie'[r]
           /\ (SaveStep(r) /\ ReadRecord(r) /\ ~(HasOptions(r)' /\ MaxAgeOf(r)' < 0))
              => /\ pc'[r] = "handler"
                 /\ ret'[r].err \in {"nil", "PutItemError"}
                 /\ emitted'[r] = << >>]_vars

\* The New of r hydrated its session from a record with no options field.
HydratedWithoutOptions(r) ==
    /\ FoundRecord(r)
    /\ loaded[r].err = "nil"
    /\ optionsField \notin DOMAIN loaded[r].item

\* C26 as the specification states it: a session hydrated from a record with
\* no options field has the store's options, and the Save that follows with
\* the options left alone writes the ttl of the store's max-age.
C26_NoOptionsMeansDefaults ==
    [][\A r \in Requests :
           /\ HydratedWithoutOptions(r)'
              => /\ HasOptions(r)'
                 /\ Deref(sess'[r].Options) = store'.options
           /\ (/\ SavePut(r)
               /\ HydratedWithoutOptions(r)
               /\ sess'[r].Options = sess[r].Options
               /\ store.options.MaxAge > 0)
              => /\ HasTTL(table'[sess'[r].ID])
                 /\ TTLOf(table'[sess'[r].ID]) = now + store.options.MaxAge]_vars

\* The step is a New of r whose cookie names an id for which a Save has
\* returned without error, no put or delete for the id made since, and the ttl
\* of what it wrote, if any, not behind the clock.
NewAfterSave(r) ==
    /\ NewRead(r)
    /\ lastWrite[cookie'[r]].by \in Requests
    /\ lastWrite[cookie'[r]].done
    /\ HasTTL(lastWrite[cookie'[r]].item) => TTLOf(lastWrite[cookie'[r]].item) >= now

\* The New of this step returned the session of its cookie as found, with the
\* values of the latest put.
ReturnsSaved(r) ==
    /\ ret'[r] = Returned("New", "nil")
    /\ ~sess'[r].IsNew
    /\ sess'[r].ID = cookie'[r]
    /\ sess'[r].Values = lastWrite[cookie'[r]].item[valuesField].S.v

\* C27 as the specification states it: a New that carries the cookie of an id
\* and begins after a Save for the id returned without error, no put or delete
\* since and the ttl not passed, returns the session as found with the values
\* of that Save.
C27_NewFindsAnySave ==
    [][\A r \in Requests : NewAfterSave(r) => ReturnsSaved(r)]_vars

\* C27: a New that carries the cookie of an id and begins after a Save for the
\* id that kept the record (its max-age not negative, or no options) returned
\* without error, no put or delete since and the ttl not passed, returns the
\* session as found with the values of that Save; after a Save with a
\* negative max-age it finds no record and returns a new session.
C27_NewFindsKeptSave ==
    [][\A r \in Requests :
           NewAfterSave(r)
           => IF lastWrite[cookie'[r]].item # NoItem
              THEN ReturnsSaved(r)
              ELSE /\ loaded'[r].err = "NotFound"
                   /\ sess'[r].IsNew
                   /\ sess'[r].ID # cookie'[r]]_vars

\* A New found the record an earlier request saved with values and a ttl, at
\* the ttl's second.
C27_Witness ==
    \E r \in Requests :
        /\ Has(r, "New", "nil")
        /\ FoundRecord(r)
        /\ lastWrite[cookie[r]].by \in Requests
        /\ lastWrite[cookie[r]].done
        /\ lastWrite[cookie[r]].item = loaded[r].item
        /\ HasTTL(loaded[r].item)
        /\ TTLOf(loaded[r].item) = loaded[r].at
        /\ sess[r].ID = cookie[r]
        /\ sess[r].Values = "hello"
        /\ ~sess[r].IsNew

\* The latest table call for the id is the delete of a Save that returned
\* without error.
DeletedBySave(id) ==
    /\ lastWrite[id].by \in Requests
    /\ lastWrite[id].item = NoItem
    /\ lastWrite[id].done

\* C28 as the specification states it: once a Save with a negative max-age has
\* deleted the record of an id and returned without error, no step puts a
\* record under the id again, a Save of a request that fetched the session
\* before the delete included.
C28_DeletionIsFinal ==
    [][\A id \in Ids : DeletedBySave(id) => table'[id] = NoItem]_vars

\* The item carries a ttl that has passed at time t.
PastTTL(item, t) == HasTTL(item) /\ TTLOf(item) > 0 /\ TTLOf(item) < t

\* C29 as the specification states it: once the ttl of the record of an id
\* has passed, no step leaves under the id a record a New would find (one
\* with no ttl, or with a ttl still to come), the Save of a request that
\* fetched the session before the expiry included.
C29_ExpiryIsFinal ==
    [][\A id \in Ids :
           PastTTL(table[id], now)
           => table'[id] = NoItem \/ PastTTL(table'[id], now')]_vars

\* The item is one load hydrates a session from: its ttl, if any, a number not
\* behind the clock at t, its id and values strings, the values and the options
\* decodable.
Hydratable(item, t) ==
    /\ SoundItem(item)
    /\ DefaultTTLField \in DOMAIN item => HasTTL(item)
    /\ ~PastTTL(item, t)
    /\ optionsField \in DOMAIN item => UnmarshalOptions(item[optionsField]).ok

\* C30: a session New returned under the id of the request's cookie was
\* hydrated from a record read under that id, present, not expired and
\* decodable; and a new session's id is the one the store generated last,
\* never the cookie's value and never empty.
C30_NoSessionFixation ==
    \A r \in Requests :
        (ret[r].op = "New" /\ pc[r] = "handler")
        => /\ (cookie[r] # NoCookie /\ sess[r].ID = cookie[r])
              => /\ FoundRecord(r)
                 /\ Hydratable(loaded[r].item, loaded[r].at)
                 /\ loaded[r].item[idField].S = cookie[r]
                 /\ ~sess[r].IsNew
           /\ sess[r].IsNew
              => /\ sess[r].ID # cookie[r]
                 /\ sess[r].ID # EmptyString
                 /\ sess[r].ID = nextId - 1

\* A New carried the id of a record that cannot be decoded and returned a new
\* session under another id.
C30_Witness ==
    \E r \in Requests :
        /\ Has(r, "New", "nil")
        /\ FoundRecord(r)
        /\ loaded[r].err = "DecodeFailed"
        /\ sess[r].IsNew
        /\ sess[r].ID # cookie[r]
        /\ sess[r].ID # EmptyString

\* The step is a New of r.
NewStep(r) == pc[r] = "idle" /\ pc'[r] \in {"handler", "panicked", "failed"}

\* C31: a New, whatever its load finds (no record, an expired one, one that
\* cannot be decoded, a sound one, a failed read), makes no put and no delete:
\* the table after it holds every record as it was.
C31_NewLeavesTable ==
    [][\A r \in Requests :
           NewStep(r)
           => /\ table' = table
              /\ lastWrite' = lastWrite
              /\ calls' = calls]_vars

\* A New found an expired record, returned a new session, and the record is
\* still in the table.
C31_Witness ==
    \E r \in Requests :
        /\ Has(r, "New", "nil")
        /\ FoundRecord(r)
        /\ PastTTL(loaded[r].item, loaded[r].at)
        /\ loaded[r].err = "NotFound"
        /\ table[cookie[r]] = loaded[r].item
        /\ calls[r] = NoCalls

\* The item has a ttl attribute load cannot read as a number.
UnreadableTTL(item) == DefaultTTLField \in DOMAIN item /\ ~HasTTL(item)

\* C32: load looks at the ttl before it decodes: a record whose ttl has passed
\* and whose values are missing or cannot be decoded is reported as not found,
\* and a record whose ttl is not a number and whose id and values are sound
\* is reported as malformed.
C32_TTLBeforeDecode ==
    \A r \in Requests :
        FoundRecord(r)
        => /\ (PastTTL(loaded[r].item, loaded[r].at) /\ ~SoundItem(loaded[r].item))
              => /\ loaded[r].err = "NotFound"
                 /\ pc[r] = "handler"
           /\ (UnreadableTTL(loaded[r].item) /\ SoundItem(loaded[r].item))
              => /\ loaded[r].err = "MalformedSession"
                 /\ pc[r] = "handler"

\* A New read a record with a passed ttl and a values string no decoder
\* accepts: not found.
C32_Witness ==
    \E r \in Requests :
        /\ FoundRecord(r)
        /\ PastTTL(loaded[r].item, loaded[r].at)
        /\ valuesField \in DOMAIN loaded[r].item
        /\ loaded[r].item[valuesField] = AttrS(JunkPayload)
        /\ loaded[r].err = "NotFound"
        /\ sess[r].IsNew

\* C33 as the specification states it: after an unmarshal that returned an
\* error (not found, malformed, decode failed, or the error of decoding the
\* options field) the session handed in is as it was before the call: isNew,
\* id, values and options.
C33_FailedUnmarshalLeavesSession ==
    (/\ pc["r2"] = "unmarshalled"
     /\ ret["r2"].op = "unmarshal"
     /\ ret["r2"].err # "nil")
    => /\ sess["r2"].IsNew = NewSession.IsNew
       /\ sess["r2"].ID = NewSession.ID
       /\ sess["r2"].Values = NewSession.Values
       /\ sess["r2"].Options = NewSession.Options

====
